---- MODULE Spec2Model ----
(***************************************************************************)
(* Model of the RSS ingestion job in src/Workspace_rss.py: the field       *)
(* extraction helpers (is_valid_url, clean_summary, parse_datetime,        *)
(* get_guid), the Article Store boundary (article_exists, insert_article)  *)
(* and the fetch_and_store loop, run once, twice in sequence, or as two    *)
(* overlapping runs against one store.                                     *)
(*                                                                         *)
(* Python strings whose content the code inspects are sequences of         *)
(* one-character strings.  An attribute that may be missing is an          *)
(* "option": None is <<>>, a present value v is <<v>>.                     *)
(***************************************************************************)
EXTENDS Integers, Sequences, FiniteSets, TLC

\* ------------------------------------------------------------------ bounds
NumFeeds == 2
MaxEntries == 2

\* ------------------------------------------------------- program constants
SummaryMax == 2000

\* ------------------------------------------------------------ Python values
None == <<>>
Some(v) == <<v>>

\* Python truthiness of an optional string / tuple attribute
Truthy(o) == o # None /\ o[1] # <<>>

\* getattr(entry, name, default) for an attribute holding a string
GetAttr(o, default) == IF o = None THEN default ELSE o[1]

\* a or b
PyOr(a, b) == IF Truthy(a) THEN a ELSE b

Whitespace == {" ", "\t", "\n"}

RECURSIVE lstrip(_)
lstrip(s) == IF s # <<>> /\ Head(s) \in Whitespace THEN lstrip(Tail(s)) ELSE s

RECURSIVE rstrip(_)
rstrip(s) == IF s # <<>> /\ s[Len(s)] \in Whitespace
             THEN rstrip(SubSeq(s, 1, Len(s) - 1)) ELSE s

\* str.strip()
strip(s) == rstrip(lstrip(s))

\* str.startswith(p)
startswith(s, p) == Len(s) >= Len(p) /\ SubSeq(s, 1, Len(p)) = p

HTTP == <<"h", "t", "t", "p", ":", "/", "/">>
HTTPS == <<"h", "t", "t", "p", "s", ":", "/", "/">>

\* variant: only the scheme name is compared
is_valid_url_Mut(url) == startswith(url, <<"h", "t", "t", "p">>)

is_valid_url(url) == startswith(url, HTTP) \/ startswith(url, HTTPS)

clean_summary(summary) ==
    IF summary = <<>> THEN <<>>
    ELSE SubSeq(summary, 1, IF Len(summary) < SummaryMax THEN Len(summary) ELSE SummaryMax)

\* ------------------------------------------------------------------- dates
IsLeap(y) == (y % 4 = 0) /\ ((y % 100 # 0) \/ (y % 400 = 0))

DaysInMonth(y, m) ==
    IF m = 2 THEN (IF IsLeap(y) THEN 29 ELSE 28)
    ELSE IF m \in {4, 6, 9, 11} THEN 30 ELSE 31

\* the first six items of the tuple: entry.published_parsed[:6]
FirstSix(t) == SubSeq(t, 1, IF Len(t) < 6 THEN Len(t) ELSE 6)

\* datetime(*args, tzinfo=utc) with hour, minute, second defaulting to 0
ArgOr0(a, i) == IF Len(a) >= i THEN a[i] ELSE 0

\* datetime(...) raises (TypeError / ValueError) unless this holds
DatetimeOk(a) ==
    /\ Len(a) >= 3
    /\ a[1] \in 1..9999
    /\ a[2] \in 1..12
    /\ a[3] \in 1..DaysInMonth(a[1], a[2])
    /\ ArgOr0(a, 4) \in 0..23
    /\ ArgOr0(a, 5) \in 0..59
    /\ ArgOr0(a, 6) \in 0..59

\* an aware datetime in UTC
Datetime(a) == [dt |-> <<a[1], a[2], a[3], ArgOr0(a, 4), ArgOr0(a, 5), ArgOr0(a, 6)>>,
                tz |-> "+00:00"]

\* the calendar day before / after (y, m, d)
PrevDay(y, m, d) ==
    IF d > 1 THEN <<y, m, d - 1>>
    ELSE IF m > 1 THEN <<y, m - 1, DaysInMonth(y, m - 1)>>
    ELSE <<y - 1, 12, 31>>

NextDay(y, m, d) ==
    IF d < DaysInMonth(y, m) THEN <<y, m, d + 1>>
    ELSE IF m < 12 THEN <<y, m + 1, 1>>
    ELSE <<y + 1, 1, 1>>

\* dt.astimezone(timezone.utc) for a wall time t with UTC offset off minutes
\* (|off| < 1440); the result as a 6-tuple, year possibly out of range
astimezone(t, off) ==
    LET total == t[4] * 60 + t[5] - off
        shift == total \div 1440
        mins  == total % 1440
        day   == IF shift < 0 THEN PrevDay(t[1], t[2], t[3])
                 ELSE IF shift > 0 THEN NextDay(t[1], t[2], t[3])
                 ELSE <<t[1], t[2], t[3]>>
    IN  <<day[1], day[2], day[3], mins \div 60, mins % 60, t[6]>>

\* A date string, by what dateutil's parser makes of it:
\*   kind "garbage": parse raises;  "naive": wall time dt without timezone;
\*   "aware": wall time dt with UTC offset off (minutes)
DateStr(kind, dt, off) == [kind |-> kind, dt |-> dt, off |-> off]

\* lines 76-84: the body of the try for one non-empty date string;
\* None when an exception was raised (continue), else Some(datetime)
parse_date_str(ds) ==
    IF ds.kind = "garbage" THEN None
    ELSE IF ds.kind = "naive" THEN Some(Datetime(ds.dt))
    ELSE LET u == astimezone(ds.dt, ds.off)
         IN  IF u[1] \in 1..9999 THEN Some(Datetime(u)) ELSE None

DateFields == <<"published", "updated", "created">>

\* lines 73-85: the fallback loop, from field number i on
RECURSIVE parse_fallback(_, _)
parse_fallback(entry, i) ==
    IF i > Len(DateFields) THEN None
    ELSE LET date_str == entry[DateFields[i]]
         IN  IF date_str # None /\ date_str[1].kind # "empty"
                /\ parse_date_str(date_str[1]) # None
             THEN parse_date_str(date_str[1])
             ELSE parse_fallback(entry, i + 1)

\* variant: the string fields are consulted before the pre-parsed tuple
parse_datetime_Mut(entry) ==
    IF parse_fallback(entry, 1) # None THEN parse_fallback(entry, 1)
    ELSE IF Truthy(entry.published_parsed) /\ DatetimeOk(FirstSix(entry.published_parsed[1]))
    THEN Some(Datetime(FirstSix(entry.published_parsed[1])))
    ELSE None

parse_datetime(entry) ==
    IF Truthy(entry.published_parsed) /\ DatetimeOk(FirstSix(entry.published_parsed[1]))
    THEN Some(Datetime(FirstSix(entry.published_parsed[1])))
    ELSE parse_fallback(entry, 1)

\* ------------------------------------------------------------------- guid
\* variant: an id equal to the link is discarded without falling back
get_guid_Mut(entry) ==
    LET guid == PyOr(entry.id, entry.guid)
    IN  IF ~Truthy(guid) THEN entry.link ELSE IF guid = entry.link THEN None ELSE guid

get_guid(entry) ==
    LET guid == PyOr(entry.id, entry.guid)
    IN  IF ~Truthy(guid) \/ guid = entry.link THEN entry.link ELSE guid

\* --------------------------------------------------------- feed contents
\* A raw feed entry: every attribute the code reads, each an option
RawEntry(title, link, id, guid, pp, published, updated, created) ==
    [title |-> title, link |-> link, id |-> id, guid |-> guid,
     summary |-> None, description |-> Some(<<"S">>),
     published_parsed |-> pp,
     published |-> published, updated |-> updated, created |-> created]

L1 == HTTP \o <<"x", "/", "1">>
L2 == HTTPS \o <<"x", "/", "2">>
L1Padded == <<" ">> \o L1 \o <<"\n">>
G1 == <<"g", "1">>

T2024 == <<2024, 1, 1, 0, 0, 0, 0, 1, 0>>

\* the entries the multi-feed runs draw from
VALID1 == RawEntry(Some(<<"T">>), Some(L1), Some(G1), None, Some(T2024), None, None, None)
VALID1B == RawEntry(Some(<<"U">>), Some(L2), Some(G1), None, Some(T2024), None, None, None)
VALID2 == RawEntry(Some(<<"V">>), Some(L2), None, None, None,
                   Some(DateStr("naive", <<2024, 2, 29, 12, 0, 0>>, 0)), None, None)
BLANKTITLE == RawEntry(Some(<<" ", "\t">>), Some(L1), Some(<<"g", "3">>), None, Some(T2024), None, None, None)
BADLINK == RawEntry(Some(<<"T">>), Some(<<"f", "t", "p", ":", "/", "/", "x">>), Some(<<"g", "4">>), None,
                    Some(T2024), None, None, None)
NODATE == RawEntry(Some(<<"T">>), Some(L1), Some(<<"g", "5">>), None, None,
                   Some(DateStr("garbage", <<>>, 0)), None, None)

\* the entries a feed serves are a window of this ring
Ring == <<VALID1, BLANKTITLE, VALID1B, VALID2, BADLINK, NODATE>>

Window(o, n) == [j \in 1..n |-> Ring[((o + j - 1) % Len(Ring)) + 1]]

FeedA == [name |-> "A", url |-> "http://a/rss"]
FeedB == [name |-> "B", url |-> "http://b/rss"]
FeedConfigs == {FeedA, FeedB}

\* ------------------------------------------------------------------ state
Runs == {1, 2}

VARIABLES
    mode,       \* "single": one run; "seq": run 2 after run 1; "conc": overlapping runs
    feeds,      \* the configured feed list (load_config), read-only
    feedData,   \* feedData[i]: the entries feed i serves (unchanged during the model)
    store,      \* the articles table: sequence of rows in insertion order
    pc,         \* pc[r]: where run r stands in fetch_and_store
    fi,         \* fi[r]: index of the feed run r is processing
    ei,         \* ei[r]: index of the entry run r is processing
    pending,    \* pending[r]: the article run r is about to insert
    log,        \* log[r]: the log records run r has emitted
    calls       \* calls[r]: the insert_article calls of run r and their outcome

vars == <<mode, feeds, feedData, store, pc, fi, ei, pending, log, calls>>

\* ------------------------------------------------------- field extraction
\* lines 136-140
\* variant: the title is not trimmed
title_of_Mut(entry) == GetAttr(entry.title, <<>>)

title_of(entry) == strip(GetAttr(entry.title, <<>>))
link_of(entry) == strip(GetAttr(entry.link, <<>>))
summary_of(entry) ==
    LET s == GetAttr(entry.summary, <<>>)
    IN  clean_summary(IF s # <<>> THEN s ELSE GetAttr(entry.description, <<>>))

\* lines 142-154: the data quality checks; "ok" or the warning logged
Quality(entry) ==
    IF title_of(entry) = <<>> \/ link_of(entry) = <<>> THEN "skip_missing_title_link"
    ELSE IF ~is_valid_url(link_of(entry)) THEN "skip_invalid_link"
    ELSE IF ~Truthy(get_guid(entry)) THEN "skip_missing_guid"
    ELSE IF parse_datetime(entry) = None THEN "skip_missing_date"
    ELSE "ok"

\* lines 161-169
MakeArticle(url, entry) ==
    [source_url |-> url,
     guid |-> get_guid(entry)[1],
     link |-> link_of(entry),
     title |-> title_of(entry),
     summary |-> summary_of(entry),
     published_at |-> parse_datetime(entry)[1]]

\* ---------------------------------------------------------- Article Store
\* select id where source_url = X and guid = Y limit 1: is res.data non-empty
HasRow(st, source_url, guid) ==
    \E i \in 1..Len(st) : st[i].source_url = source_url /\ st[i].guid = guid

\* variant: the table has no uniqueness constraint
ViolatesUnique_Mut(st, row) == FALSE

\* UNIQUE (source_url, guid): the store refuses a row whose key it holds
ViolatesUnique(st, row) == HasRow(st, row.source_url, row.guid)

\* variant: fail closed, a failed query counts as "already stored"
article_exists_FailClosed(st, source_url, guid, queryOk) ==
    IF queryOk THEN HasRow(st, source_url, guid) ELSE TRUE

\* variant: the query filters on the guid of another column and finds nothing
article_exists_NeverFound(st, source_url, guid, queryOk) == FALSE

\* lines 94-100: queryOk = FALSE when the query raises; then the error is
\* logged and False returned
article_exists(st, source_url, guid, queryOk) ==
    IF queryOk THEN HasRow(st, source_url, guid) ELSE FALSE

\* the key of a row
KeyOf(row) == <<row.source_url, row.guid>>

\* ------------------------------------------------------------------- Init
NoArticle == [source_url |-> "", guid |-> <<>>, link |-> <<>>, title |-> <<>>,
              summary |-> <<>>, published_at |-> Datetime(<<1, 1, 1>>)]

\* a row left by an earlier run for VALID1 of feed A
OldRow == MakeArticle(FeedA.url, VALID1)

InitRuns ==
    /\ pc = [r \in Runs |-> "idle"]
    /\ fi = [r \in Runs |-> 0]
    /\ ei = [r \in Runs |-> 0]
    /\ pending = [r \in Runs |-> NoArticle]
    /\ log = [r \in Runs |-> <<>>]
    /\ calls = [r \in Runs |-> <<>>]

Init ==
    /\ mode = "single"
    /\ feeds \in [1..NumFeeds -> FeedConfigs]
    /\ \E o \in 0..(Len(Ring) - 1) :
           feedData = [i \in 1..NumFeeds |-> Window(o + (i - 1) * MaxEntries, MaxEntries)]
    /\ store \in {<<>>, <<OldRow>>}
    /\ InitRuns

\* run 2 starts after run 1 has finished; one feed, unchanged between the runs
InitSeq ==
    /\ mode = "seq"
    /\ feeds = <<FeedA>>
    /\ \E o \in 0..(Len(Ring) - 1) : feedData = <<Window(o, MaxEntries)>>
    /\ store \in {<<>>, <<OldRow>>}
    /\ InitRuns

\* two overlapping runs over one feed
InitConc ==
    /\ mode = "conc"
    /\ feeds = <<FeedA>>
    /\ \E o \in 0..(Len(Ring) - 1) : feedData = <<Window(o, MaxEntries)>>
    /\ store \in {<<>>, <<OldRow>>}
    /\ InitRuns

\* field values for the extraction helpers
Titles == {None, Some(<<>>), Some(<<" ", "\t">>), Some(<<" ", "T", "\n">>)}
Links == {None, Some(<<" ">>), Some(L1), Some(L1Padded),
          Some(<<"f", "t", "p", ":", "/", "/", "x">>), Some(<<"h", "t", "t", "p", ":", "/">>),
          Some(<<"H", "T", "T", "P", ":", "/", "/", "x">>)}
Ids == {None, Some(<<>>), Some(G1), Some(L1)}
Guids == {None, Some(L1Padded)}
ParsedDates == {None, Some(<<>>), Some(T2024), Some(<<2024, 2, 29>>),
                Some(<<2023, 2, 29, 0, 0, 0, 2, 60, 0>>), Some(<<2016, 12, 31, 23, 59, 60, 5, 366, 0>>)}
PublishedStrs == {None, Some(DateStr("empty", <<>>, 0)), Some(DateStr("garbage", <<>>, 0)),
                  Some(DateStr("aware", <<2024, 1, 1, 1, 30, 0>>, 120))}
UpdatedStrs == {None, Some(DateStr("aware", <<1, 1, 1, 0, 30, 0>>, 60)),
                Some(DateStr("naive", <<2024, 3, 1, 8, 0, 0>>, 0))}
CreatedStrs == {None, Some(DateStr("aware", <<2023, 2, 28, 22, 0, 0>>, -300))}

WideEntries ==
    {RawEntry(t, l, i, g, pp, p, u, c) :
        t \in Titles, l \in Links, i \in Ids, g \in Guids,
        pp \in ParsedDates, p \in PublishedStrs, u \in UpdatedStrs, c \in CreatedStrs}

\* one run over one feed serving one entry, any combination of field values;
\* the store is empty or already holds the entry's article
InitWide ==
    /\ mode = "single"
    /\ feeds = <<FeedA>>
    /\ \E entry \in WideEntries :
          /\ feedData = <<<<entry>>>>
          /\ store \in {<<>>} \cup (IF Quality(entry) = "ok"
                                    THEN {<<MakeArticle(FeedA.url, entry)>>} ELSE {})
    /\ InitRuns

\* -------------------------------------------------------------- the loop
LogEv(ev, f, e) == [ev |-> ev, f |-> f, e |-> e]

Emit(r, evs) == log' = [log EXCEPT ![r] = @ \o evs]

\* the for loop over feeds moves on (continue / end of the entries / except)
NextFeed(r) ==
    /\ ei' = [ei EXCEPT ![r] = 0]
    /\ IF fi[r] < Len(feeds)
       THEN fi' = [fi EXCEPT ![r] = @ + 1] /\ pc' = [pc EXCEPT ![r] = "fetch"]
       ELSE fi' = fi /\ pc' = [pc EXCEPT ![r] = "done"]

\* variant: `break` in place of `continue`, the rest of the feed is dropped
NextEntry_Mut(r) == NextFeed(r)

\* the for loop over entries moves on (continue / end of the body)
NextEntry(r) ==
    IF ei[r] < Len(feedData[fi[r]])
    THEN ei' = [ei EXCEPT ![r] = @ + 1] /\ pc' = [pc EXCEPT ![r] = "entry"] /\ fi' = fi
    ELSE NextFeed(r)

\* __main__: fetch_and_store() is entered; run 2 is a second invocation
StartRun(r) ==
    /\ pc[r] = "idle"
    /\ \/ r = 1
       \/ r = 2 /\ mode = "conc"
       \/ r = 2 /\ mode = "seq" /\ pc[1] = "done"
    /\ pc' = [pc EXCEPT ![r] = "fetch"]
    /\ fi' = [fi EXCEPT ![r] = 1]
    /\ UNCHANGED <<mode, feeds, feedData, store, ei, pending, log, calls>>

\* lines 118-131, 135: status 200, the parser reports no error
FetchOk(r) ==
    /\ pc[r] = "fetch"
    /\ Emit(r, <<LogEv("processing", fi[r], 0)>>)
    /\ IF feedData[fi[r]] = <<>>
       THEN NextFeed(r)
       ELSE ei' = [ei EXCEPT ![r] = 1] /\ pc' = [pc EXCEPT ![r] = "entry"] /\ fi' = fi
    /\ UNCHANGED <<mode, feeds, feedData, store, pending, calls>>

\* lines 128-130: status other than 200
FetchNon200(r) ==
    /\ pc[r] = "fetch"
    /\ Emit(r, <<LogEv("processing", fi[r], 0), LogEv("error_fetch_http", fi[r], 0)>>)
    /\ NextFeed(r)
    /\ UNCHANGED <<mode, feeds, feedData, store, pending, calls>>

\* lines 131-134: feed_data.bozo
FetchBozo(r) ==
    /\ pc[r] = "fetch"
    /\ Emit(r, <<LogEv("processing", fi[r], 0), LogEv("error_feed_parsing", fi[r], 0)>>)
    /\ NextFeed(r)
    /\ UNCHANGED <<mode, feeds, feedData, store, pending, calls>>

\* variant: no except clause at feed level, the exception ends the process
FetchRaise_Mut(r) ==
    /\ pc[r] = "fetch"
    /\ Emit(r, <<LogEv("processing", fi[r], 0)>>)
    /\ pc' = [pc EXCEPT ![r] = "crashed"]
    /\ UNCHANGED <<mode, feeds, feedData, store, fi, ei, pending, calls>>

\* lines 127/131 raise, caught at lines 173-174
FetchRaise(r) ==
    /\ pc[r] = "fetch"
    /\ Emit(r, <<LogEv("processing", fi[r], 0), LogEv("error_processing_feed", fi[r], 0)>>)
    /\ NextFeed(r)
    /\ UNCHANGED <<mode, feeds, feedData, store, pending, calls>>

\* lines 136-158 for one entry: extraction, quality checks, article_exists.
\* queryOk = FALSE: the existence query raises (lines 98-100)
CheckEntry(r, queryOk) ==
    /\ pc[r] = "entry"
    /\ LET f == fi[r]
           e == ei[r]
           entry == feedData[f][e]
           url == feeds[f].url
           q == Quality(entry)
       IN  IF q # "ok"
           THEN /\ Emit(r, <<LogEv(q, f, e)>>)
                /\ NextEntry(r)
                /\ UNCHANGED pending
           ELSE LET exists == article_exists(store, url, get_guid(entry)[1], queryOk)
                IN  /\ IF queryOk THEN log' = log ELSE Emit(r, <<LogEv("error_db_check", f, e)>>)
                    /\ IF exists
                       THEN NextEntry(r) /\ UNCHANGED pending
                       ELSE /\ pending' = [pending EXCEPT ![r] = MakeArticle(url, entry)]
                            /\ pc' = [pc EXCEPT ![r] = "insert"]
                            /\ UNCHANGED <<fi, ei>>
    /\ UNCHANGED <<mode, feeds, feedData, store, calls>>

\* What one insert(data).execute() followed by `res.error` can do (lines 104-110):
\*   "stored":        the row is persisted, res.error is falsy
\*   "stored_noattr": the row is persisted, res has no attribute `error`
\*                    (AttributeError, caught at line 109)
\*   "res_error":     nothing persisted, res.error is set
\*   "raised":        nothing persisted, execute() raises
Outcomes == {"stored", "stored_noattr", "res_error", "raised"}

InsertOutcomes(st, row) ==
    IF ViolatesUnique(st, row) THEN {"res_error", "raised"} ELSE Outcomes

Persists(outcome) == outcome \in {"stored", "stored_noattr"}

\* the value insert_article returns
insert_article_ret(outcome) == outcome = "stored"

\* the record insert_article logs, if any
insert_article_log(outcome) ==
    IF outcome = "stored" THEN "none"
    ELSE IF outcome = "res_error" THEN "error_failed_to_insert"
    ELSE "error_insert_failed"

\* lines 170-172: insert_article(article), then the success record
InsertEntry(r, outcome) ==
    /\ pc[r] = "insert"
    /\ outcome \in InsertOutcomes(store, pending[r])
    /\ store' = IF Persists(outcome) THEN Append(store, pending[r]) ELSE store
    /\ calls' = [calls EXCEPT ![r] = Append(@, [f |-> fi[r], e |-> ei[r], article |-> pending[r],
                                                 persisted |-> Persists(outcome),
                                                 ret |-> insert_article_ret(outcome)])]
    /\ Emit(r, IF insert_article_ret(outcome)
               THEN <<LogEv("info_inserted", fi[r], ei[r])>>
               ELSE <<LogEv(insert_article_log(outcome), fi[r], ei[r])>>)
    /\ pending' = [pending EXCEPT ![r] = NoArticle]
    /\ NextEntry(r)
    /\ UNCHANGED <<mode, feeds, feedData>>

Next ==
    \E r \in Runs :
        \/ StartRun(r)
        \/ FetchOk(r)
        \/ FetchNon200(r)
        \/ FetchBozo(r)
        \/ FetchRaise(r)
        \/ \E queryOk \in BOOLEAN : CheckEntry(r, queryOk)
        \/ \E outcome \in Outcomes : InsertEntry(r, outcome)

Spec == Init /\ [][Next]_vars

SeqSpec == InitSeq /\ [][Next]_vars

ConcSpec == InitConc /\ [][Next]_vars

ExtractSpec == InitWide /\ [][Next]_vars

\* every blocking call of the sequential loop returns or times out, so an
\* enabled step of the run is eventually taken
FairSpec == Init /\ [][Next]_vars /\ WF_vars(Next)

\* ------------------------------------------------------ reading the history
CallIdx(r) == 1..Len(calls[r])
EntryAt(f, e) == feedData[f][e]
EntryOfCall(c) == feedData[c.f][c.e]

FeedErrors == {"error_fetch_http", "error_feed_parsing", "error_processing_feed"}
Warnings == {"skip_missing_title_link", "skip_invalid_link", "skip_missing_guid", "skip_missing_date"}

\* run r fetched and parsed feed f without a feed-level failure
FeedOk(r, f) ==
    /\ \E i \in 1..Len(log[r]) : log[r][i] = LogEv("processing", f, 0)
    /\ ~\E i \in 1..Len(log[r]) : log[r][i].f = f /\ log[r][i].ev \in FeedErrors

\* run r has left entry e of feed f behind
Passed(r, f, e) ==
    \/ pc[r] = "done"
    \/ pc[r] # "idle" /\ fi[r] > f
    \/ pc[r] \in {"entry", "insert"} /\ fi[r] = f /\ ei[r] > e

Submitted(r, f, e) == \E i \in CallIdx(r) : calls[r][i].f = f /\ calls[r][i].e = e

\* the title is absent, empty or consists of whitespace only
BlankTitle(entry) ==
    \/ entry.title = None
    \/ \A i \in 1..Len(entry.title[1]) : entry.title[1][i] \in Whitespace

\* s begins with http:// or https://
WebPrefix(s) == \E p \in {HTTP, HTTPS} : Len(s) >= Len(p) /\ \A i \in 1..Len(p) : s[i] = p[i]

TrimmedLink(entry) == strip(IF entry.link = None THEN <<>> ELSE entry.link[1])

\* C3: an entry whose title is absent, empty or whitespace-only is never
\* handed to insert_article, whatever its other fields and the store hold.
C3_NoInsertForBlankTitle ==
    \A r \in Runs :
        /\ \A i \in CallIdx(r) : ~BlankTitle(EntryOfCall(calls[r][i]))
        /\ pc[r] = "insert" => ~BlankTitle(EntryAt(fi[r], ei[r]))

\* a whitespace-only title on an otherwise acceptable entry was skipped
C3_Witness ==
    /\ pc[1] = "done"
    /\ LET entry == EntryAt(1, 1)
       IN  /\ Truthy(entry.title) /\ BlankTitle(entry)
           /\ WebPrefix(TrimmedLink(entry))
           /\ parse_datetime(entry) # None
    /\ log[1] = <<LogEv("processing", 1, 0), LogEv("skip_missing_title_link", 1, 1)>>
    /\ calls[1] = <<>>

\* C4: an entry whose trimmed link does not begin with http:// or https://
\* (an empty link included) is never handed to insert_article; every article
\* submitted carries a link with one of the two prefixes.
C4_NoInsertForInvalidLink ==
    \A r \in Runs :
        /\ \A i \in CallIdx(r) : /\ WebPrefix(calls[r][i].article.link)
                                 /\ WebPrefix(TrimmedLink(EntryOfCall(calls[r][i])))
        /\ pc[r] = "insert" => /\ WebPrefix(pending[r].link)
                               /\ WebPrefix(TrimmedLink(EntryAt(fi[r], ei[r])))

\* a link that stops short of the prefix, on an entry with a title and a date, was skipped
C4_Witness ==
    /\ pc[1] = "done"
    /\ LET entry == EntryAt(1, 1)
       IN  /\ ~BlankTitle(entry)
           /\ entry.link = Some(<<"h", "t", "t", "p", ":", "/">>)
           /\ parse_datetime(entry) # None
    /\ log[1] = <<LogEv("processing", 1, 0), LogEv("skip_invalid_link", 1, 1)>>
    /\ calls[1] = <<>>

\* the entry carries a pre-parsed date tuple from which a datetime can be built
ValidParsed(entry) ==
    /\ entry.published_parsed # None
    /\ LET t == entry.published_parsed[1]
       IN  /\ Len(t) >= 3
           /\ t[1] \in 1..9999 /\ t[2] \in 1..12 /\ t[3] \in 1..DaysInMonth(t[1], t[2])
           /\ Len(t) >= 4 => t[4] \in 0..23
           /\ Len(t) >= 5 => t[5] \in 0..59
           /\ Len(t) >= 6 => t[6] \in 0..59

\* that tuple's (year, month, day, hour, minute, second), labelled UTC
TupleAsUtc(entry) ==
    LET t == entry.published_parsed[1]
    IN  [dt |-> [i \in 1..6 |-> IF i <= Len(t) THEN t[i] ELSE 0], tz |-> "+00:00"]

\* what the string field yields, None when it is absent, empty or does not parse
FromString(entry, field) ==
    IF entry[field] = None \/ entry[field][1].kind = "empty" THEN None
    ELSE parse_date_str(entry[field][1])

FirstString(entry) ==
    IF FromString(entry, "published") # None THEN FromString(entry, "published")
    ELSE IF FromString(entry, "updated") # None THEN FromString(entry, "updated")
    ELSE FromString(entry, "created")

\* C8: with a valid pre-parsed tuple, published_at is that tuple labelled UTC
\* whatever the string fields hold; published, updated, created are consulted
\* in that order, first that parses, only when the tuple is absent or fails.
C8_ParsedTupleWins ==
    /\ \A f \in DOMAIN feedData : \A e \in DOMAIN feedData[f] :
         LET entry == EntryAt(f, e)
         IN  IF ValidParsed(entry)
             THEN parse_datetime(entry) = Some(TupleAsUtc(entry))
             ELSE parse_datetime(entry) = FirstString(entry)
    /\ \A r \in Runs : \A i \in CallIdx(r) :
         ValidParsed(EntryOfCall(calls[r][i]))
            => calls[r][i].article.published_at = TupleAsUtc(EntryOfCall(calls[r][i]))

\* an article was submitted for an entry with a valid tuple and a parseable
\* `published` string naming another instant
C8_Witness ==
    \E i \in CallIdx(1) :
        LET entry == EntryOfCall(calls[1][i])
        IN  /\ ValidParsed(entry)
            /\ FromString(entry, "published") # None
            /\ FromString(entry, "published") # Some(TupleAsUtc(entry))
            /\ calls[1][i].article.published_at.dt = <<2024, 1, 1, 0, 0, 0>>

\* `id`/`guid` are absent (or empty), or the one that is used equals the link
GuidFallsBack(entry) ==
    LET g == IF Truthy(entry.id) THEN entry.id ELSE entry.guid
    IN  ~Truthy(g) \/ g = entry.link

OtherFieldsValid(entry) ==
    ~BlankTitle(entry) /\ WebPrefix(TrimmedLink(entry)) /\ parse_datetime(entry) # None

\* C9 as stated: when `id`/`guid` are absent or equal to the link, the guid of
\* the submitted article equals the link stored in that article.
C9_GuidEqualsStoredLink ==
    \A r \in Runs : \A i \in CallIdx(r) :
        GuidFallsBack(EntryOfCall(calls[r][i]))
            => calls[r][i].article.guid = calls[r][i].article.link

\* C9 amended: when `id`/`guid` are absent or equal to the link, the resolved
\* guid is the entry's link as the parser delivered it (untrimmed; trimming it
\* gives the stored link), and the entry is not rejected for it: with its
\* other fields valid it draws no warning and is submitted unless the store
\* already holds its key.
C9_GuidIsRawLink ==
    /\ \A f \in DOMAIN feedData : \A e \in DOMAIN feedData[f] :
         GuidFallsBack(EntryAt(f, e)) => get_guid(EntryAt(f, e)) = EntryAt(f, e).link
    /\ \A r \in Runs :
         /\ \A i \in CallIdx(r) :
              GuidFallsBack(EntryOfCall(calls[r][i]))
                 => /\ Some(calls[r][i].article.guid) = EntryOfCall(calls[r][i]).link
                    /\ strip(calls[r][i].article.guid) = calls[r][i].article.link
         /\ \A f \in DOMAIN feedData : \A e \in DOMAIN feedData[f] :
              (GuidFallsBack(EntryAt(f, e)) /\ OtherFieldsValid(EntryAt(f, e)))
                 => /\ \A i \in 1..Len(log[r]) :
                          ~(log[r][i].f = f /\ log[r][i].e = e /\ log[r][i].ev \in Warnings)
                    /\ (FeedOk(r, f) /\ Passed(r, f, e))
                          => \/ Submitted(r, f, e)
                             \/ HasRow(store, feeds[f].url, EntryAt(f, e).link[1])

\* an entry without id and guid whose link carries surrounding whitespace was
\* submitted: its guid is the untrimmed link, its link the trimmed one
C9_Witness ==
    \E i \in CallIdx(1) :
        LET entry == EntryOfCall(calls[1][i])
        IN  /\ ~Truthy(entry.id) /\ ~Truthy(entry.guid)
            /\ calls[1][i].article.guid = L1Padded
            /\ calls[1][i].article.link = L1

\* the feeds run r has attempted, in the order of the attempts
RECURSIVE AttemptsIn(_)
AttemptsIn(l) ==
    IF l = <<>> THEN <<>>
    ELSE IF Head(l).ev = "processing" THEN <<Head(l).f>> \o AttemptsIn(Tail(l))
    ELSE AttemptsIn(Tail(l))

Attempts(r) == AttemptsIn(log[r])

HasLog(r, ev, f, e) == \E i \in 1..Len(log[r]) : log[r][i] = LogEv(ev, f, e)

\* C5: whatever fails (status, bozo, exception, duplicate check, insert),
\* every configured feed is attempted exactly once, in listed order, and the
\* run finishes; a failing feed does not keep the next one from being fetched.
C5_AllFeedsAttempted ==
    /\ <>(pc[1] = "done")
    /\ [](\E n \in 0..Len(feeds) : Attempts(1) = [i \in 1..n |-> i])
    /\ [](pc[1] = "done" => Attempts(1) = [i \in 1..Len(feeds) |-> i])

\* the run is over; the first feed raised, the last one was fetched after it
\* and an article of it went to the store
C5_Witness ==
    /\ pc[1] = "done"
    /\ HasLog(1, "error_processing_feed", 1, 0)
    /\ FeedOk(1, Len(feeds))
    /\ \E i \in CallIdx(1) : calls[1][i].f = Len(feeds) /\ calls[1][i].persisted

\* C6: when the existence query fails, the entry is treated as not a
\* duplicate and is submitted to insert_article, and the entries after it
\* are still processed.
C6_FailOpen ==
    /\ [](\A r \in Runs : \A i \in 1..Len(log[r]) :
            log[r][i].ev = "error_db_check"
               => \/ Submitted(r, log[r][i].f, log[r][i].e)
                  \/ /\ pc[r] = "insert" /\ fi[r] = log[r][i].f /\ ei[r] = log[r][i].e
                     /\ pending[r] = MakeArticle(feeds[fi[r]].url, EntryAt(fi[r], ei[r])))
    /\ [][\A r \in Runs :
            (pc[r] = "insert" /\ pc'[r] # "insert" /\ log[r][Len(log[r])].ev = "error_db_check")
               => IF ei[r] < Len(feedData[fi[r]])
                  THEN pc'[r] = "entry" /\ fi'[r] = fi[r] /\ ei'[r] = ei[r] + 1
                  ELSE pc'[r] \in {"fetch", "done"}]_vars

\* the query failed for an entry the store already held; the entry was
\* submitted all the same and the next entry of the feed is being processed
C6_Witness ==
    \E i \in CallIdx(1) :
        /\ HasLog(1, "error_db_check", calls[1][i].f, calls[1][i].e)
        /\ store = <<OldRow>>
        /\ KeyOf(calls[1][i].article) = KeyOf(OldRow)
        /\ pc[1] = "entry" /\ fi[1] = calls[1][i].f /\ ei[1] = calls[1][i].e + 1

\* C7 as stated: what insert_article reports matches the store: True and
\* "Inserted new article" exactly when the row was persisted, False and an
\* error record exactly when it was not.
C7_ReportMatchesStore ==
    \A r \in Runs : \A i \in CallIdx(r) :
        /\ calls[r][i].ret = calls[r][i].persisted
        /\ HasLog(r, "info_inserted", calls[r][i].f, calls[r][i].e) = calls[r][i].persisted

\* the entry passes the quality checks
ValidEntry(entry) == OtherFieldsValid(entry) /\ Truthy(get_guid(entry))

\* calls[r] lists entries in feed order, each at most once
CallsInOrder(r) ==
    \A i, j \in CallIdx(r) :
        i < j => \/ calls[r][i].f < calls[r][j].f
                 \/ calls[r][i].f = calls[r][j].f /\ calls[r][i].e < calls[r][j].e

\* C10: in a feed that was fetched and parsed, a rejected, duplicate or
\* failed entry discards only itself: later entries are still processed, and
\* each valid entry not in the store is submitted exactly once, in parser order.
C10_SkipsAreLocal ==
    /\ [](\A r \in Runs :
            /\ CallsInOrder(r)
            /\ \A i \in CallIdx(r) : ValidEntry(EntryOfCall(calls[r][i]))
            /\ \A f \in DOMAIN feedData : \A e \in DOMAIN feedData[f] :
                 (FeedOk(r, f) /\ Passed(r, f, e) /\ ValidEntry(EntryAt(f, e))
                   /\ ~HasRow(store, feeds[f].url, get_guid(EntryAt(f, e))[1]))
                    => Submitted(r, f, e))
    /\ [][\A r \in Runs :
            (pc[r] = "entry" /\ (pc'[r] # "entry" \/ ei'[r] # ei[r] \/ fi'[r] # fi[r])
              /\ ValidEntry(EntryAt(fi[r], ei[r]))
              /\ ~HasRow(store, feeds[fi[r]].url, get_guid(EntryAt(fi[r], ei[r]))[1]))
               => /\ pc'[r] = "insert" /\ fi'[r] = fi[r] /\ ei'[r] = ei[r]
                  /\ pending'[r] = MakeArticle(feeds[fi[r]].url, EntryAt(fi[r], ei[r]))]_vars

\* a feed whose first entry was rejected (or failed its insert) and whose
\* later entry was then submitted and stored
C10_Witness ==
    \E r \in Runs : \E i \in CallIdx(r) :
        /\ calls[r][i].e > 1
        /\ calls[r][i].persisted
        /\ \/ \E w \in Warnings : HasLog(r, w, calls[r][i].f, 1)
           \/ \E j \in CallIdx(r) : calls[r][j].f = calls[r][i].f /\ calls[r][j].e = 1
                                      /\ ~calls[r][j].persisted

\* the first run's insert of entry e of feed f was persisted
PersistedByRun1(f, e) ==
    \E i \in CallIdx(1) : calls[1][i].f = f /\ calls[1][i].e = e /\ calls[1][i].persisted

\* run r has handed entry e of feed f to insert_article (the call may be under way)
Submits(r, f, e) ==
    Submitted(r, f, e) \/ (pc[r] = "insert" /\ fi[r] = f /\ ei[r] = e)

\* no key is persisted by more than one insert call of the two runs
PersistedOnce ==
    \A r1, r2 \in Runs : \A i \in CallIdx(r1) : \A j \in CallIdx(r2) :
        (calls[r1][i].persisted /\ calls[r2][j].persisted
          /\ KeyOf(calls[r1][i].article) = KeyOf(calls[r2][j].article))
            => (r1 = r2 /\ i = j)

NoWarningInRun2(f, e) ==
    \A i \in 1..Len(log[2]) : ~(log[2][i].f = f /\ log[2][i].e = e /\ log[2][i].ev \in Warnings)

\* C1 as stated: run twice over an unchanged feed, with the first run's
\* inserts persisted, every entry is inserted at most once; the second run
\* submits no insert and logs no warning for the entries the first run stored.
C1_SecondRunSubmitsNothing ==
    /\ PersistedOnce
    /\ \A f \in DOMAIN feedData : \A e \in DOMAIN feedData[f] :
         PersistedByRun1(f, e) => (~Submits(2, f, e) /\ NoWarningInRun2(f, e))

\* C1 amended: every entry is persisted at most once; for an entry the first
\* run stored, the second run logs no warning and submits an insert only
\* when its existence query failed (logged as an error, fail-open), and that
\* insert is not persisted.
C1_SecondRunSubmitsOnlyOnQueryFailure ==
    /\ PersistedOnce
    /\ \A f \in DOMAIN feedData : \A e \in DOMAIN feedData[f] :
         PersistedByRun1(f, e)
            => /\ Submits(2, f, e) => HasLog(2, "error_db_check", f, e)
               /\ NoWarningInRun2(f, e)
               /\ \A i \in CallIdx(2) :
                    (calls[2][i].f = f /\ calls[2][i].e = e) => ~calls[2][i].persisted

\* the second run fetched the feed and finished without submitting, or
\* logging anything about, an entry the first run had stored
C1_Witness ==
    /\ mode = "seq"
    /\ pc[2] = "done"
    /\ FeedOk(2, 1)
    /\ \E e \in DOMAIN feedData[1] :
         /\ PersistedByRun1(1, e)
         /\ ~Submitted(2, 1, e)
         /\ \A i \in 1..Len(log[2]) : log[2][i].e # e

\* C2: no two rows of the store share (source_url, guid), however the
\* check-then-insert steps of two runs interleave and also when the
\* existence check fails open for a stored entry.
C2_UniqueKeys ==
    \A i, j \in 1..Len(store) : i # j => KeyOf(store[i]) # KeyOf(store[j])

\* both runs passed the existence check for the same key with a successful
\* query; run 1 has stored its row and run 2 is about to insert
C2_Witness ==
    /\ mode = "conc"
    /\ pc[2] = "insert"
    /\ ~HasLog(2, "error_db_check", fi[2], ei[2])
    /\ \E i \in CallIdx(1) : /\ calls[1][i].persisted
                             /\ KeyOf(calls[1][i].article) = KeyOf(pending[2])
    /\ HasRow(store, pending[2].source_url, pending[2].guid)

====
